---- MODULE Spec2Model ----
(***************************************************************************)
(* Model of the jobworker package (job registry, process launcher and      *)
(* completion goroutine) and of the callers that drive it concurrently.    *)
(*                                                                         *)
(* The registry map holds pointers, so the model keeps the Job objects in  *)
(* a heap (a sequence, the index is the pointer) and the map from id       *)
(* strings to pointers separately.  The OS process, the context and the    *)
(* completion goroutine of a job are indexed by the same pointer.          *)
(***************************************************************************)
EXTENDS Integers, Sequences, FiniteSets, TLC

\* ---------------------------------------------------------------- bounds
MaxID == 2          \* Start calls allowed before the model stops starting
MaxOut == 1         \* bytes a process writes to each of its two streams
NumClients == 2     \* concurrent callers of the package

Clients == 1..NumClients

\* ------------------------------------------------------------- constants
Free == 0           \* jobsMu is not held by a writer
NoRef == 0          \* nil *Job

\* The commands callers start, and what the operating system does with each:
\* whether it can be started, how many bytes it may write to each stream and
\* the code it exits with when it exits by itself.
Invocations ==
    { [cmd |-> "echo", args |-> <<"hello">>],
      [cmd |-> "cat", args |-> <<"missing">>],
      [cmd |-> "nosuch", args |-> <<>>] }

Starts(cmd) == cmd # "nosuch"
WritesOut(cmd) == IF cmd = "echo" THEN MaxOut ELSE 0
WritesErr(cmd) == IF cmd = "cat" THEN MaxOut ELSE 0
ExitCodeOf(cmd) == IF cmd = "cat" THEN 1 ELSE 0
Killed == -1            \* ProcessState.ExitCode() of a signalled process

Terminal == {"Succeeded", "Failed", "Stopped"}

VARIABLES
    nextID,     \* package variable nextID
    jobs,       \* package variable jobs: id string -> pointer into heap
    lock,       \* jobsMu: Free, or the pointer of the goroutine writing
    heap,       \* the Job objects, by pointer
    proc,       \* by pointer: the OS process and its two capture buffers
    ctx,        \* by pointer: the job's context and the exec watcher
    sup,        \* by pointer: the completion goroutine
    pc,         \* by client: position inside Start, or "idle"
    loc,        \* by client: the locals of the Start call in progress
    ret,        \* what the call that finished last returned
    issued,     \* history: the ids allocated so far, in order
    failedIds   \* history: ids allocated to Starts whose process failed

vars == <<nextID, jobs, lock, heap, proc, ctx, sup, pc, loc, ret,
          issued, failedIds>>

\* ---------------------------------------------------------- strconv.Itoa
Digit(d) ==
    CASE d = 0 -> "0" [] d = 1 -> "1" [] d = 2 -> "2" [] d = 3 -> "3"
      [] d = 4 -> "4" [] d = 5 -> "5" [] d = 6 -> "6" [] d = 7 -> "7"
      [] d = 8 -> "8" [] d = 9 -> "9"

RECURSIVE Itoa(_)
Itoa(n) == IF n < 10 THEN Digit(n) ELSE Itoa(n \div 10) \o Digit(n % 10)

\* a counter that is read but not advanced
NextCounterStuck(n) == n

\* nextID++
NextCounter(n) == n + 1

\* ids a caller may pass to GetStatus, GetOutput and Stop
IdArgs == { Itoa(n) : n \in 1..MaxID } \cup {"nonexistent"}

\* ------------------------------------------------------------ job object
NewJob(id, inv) ==
    [ ID |-> id, Command |-> inv.cmd, Args |-> inv.args,
      Status |-> "Running", ExitCode |-> <<>>,
      Stdout |-> "", Stderr |-> "" ]

NewProc == [ state |-> "running", exit |-> 0, out |-> "", err |-> "" ]

NewCtx == [ cancelled |-> FALSE, watchErr |-> FALSE ]

NewSup == [ pc |-> "none", err |-> FALSE ]

NoLoc == [ id |-> "", inv |-> [cmd |-> "", args |-> <<>>], ref |-> NoRef ]

\* What a finished call returned (val, val2, err), with the call (op, arg) and
\* what held when it ran: the status the job had (seen) and whether its
\* context was already cancelled (again).
Result(op, arg, val, val2, err, seen, again) ==
    [ op |-> op, arg |-> arg, val |-> val, val2 |-> val2, err |-> err,
      seen |-> seen, again |-> again ]

NoRet == Result("none", "", "", "", FALSE, "", FALSE)

Refs == 1..Len(heap)

\* job, ok := jobs[id]
Lookup(id) ==
    IF id \in DOMAIN jobs THEN [ok |-> TRUE, ref |-> jobs[id]]
                          ELSE [ok |-> FALSE, ref |-> NoRef]

Init ==
    /\ nextID = 1
    /\ jobs = [k \in {} |-> NoRef]
    /\ lock = Free
    /\ heap = <<>>
    /\ proc = <<>>
    /\ ctx = <<>>
    /\ sup = <<>>
    /\ pc = [c \in Clients |-> "idle"]
    /\ loc = [c \in Clients |-> NoLoc]
    /\ ret = NoRet
    /\ issued = <<>>
    /\ failedIds = {}

\* ------------------------------------------------------------------ Start
\* jobsMu.Lock(); id := strconv.Itoa(nextID); nextID++; jobsMu.Unlock()
StartAlloc(c, inv) ==
    /\ pc[c] = "idle"
    /\ nextID <= MaxID
    /\ lock = Free
    /\ loc' = [loc EXCEPT ![c] = [id |-> Itoa(nextID), inv |-> inv, ref |-> NoRef]]
    /\ nextID' = NextCounter(nextID)
    /\ issued' = Append(issued, Itoa(nextID))
    /\ pc' = [pc EXCEPT ![c] = "spawn"]
    /\ UNCHANGED <<jobs, lock, heap, proc, ctx, sup, ret, failedIds>>

\* cmd.Start() fails: cancel(); return "", err
StartFail(c) ==
    /\ pc[c] = "spawn"
    /\ ~Starts(loc[c].inv.cmd)
    /\ ret' = Result("Start", loc[c].id, "", "", TRUE, "", FALSE)
    /\ failedIds' = failedIds \cup {loc[c].id}
    /\ pc' = [pc EXCEPT ![c] = "idle"]
    /\ loc' = [loc EXCEPT ![c] = NoLoc]
    /\ UNCHANGED <<nextID, jobs, lock, heap, proc, ctx, sup, issued>>

\* cmd.Start() succeeds; job := &Job{...}
StartSpawn(c) ==
    /\ pc[c] = "spawn"
    /\ Starts(loc[c].inv.cmd)
    /\ heap' = Append(heap, NewJob(loc[c].id, loc[c].inv))
    /\ proc' = Append(proc, NewProc)
    /\ ctx' = Append(ctx, NewCtx)
    /\ sup' = Append(sup, NewSup)
    /\ loc' = [loc EXCEPT ![c].ref = Len(heap) + 1]
    /\ pc' = [pc EXCEPT ![c] = "insert"]
    /\ UNCHANGED <<nextID, jobs, lock, ret, issued, failedIds>>

\* jobs[id] = job
Insert(id, ref) ==
    [k \in DOMAIN jobs \cup {id} |-> IF k = id THEN ref ELSE jobs[k]]

\* jobsMu.Lock(); jobs[id] = job; jobsMu.Unlock()
StartInsert(c) ==
    /\ pc[c] = "insert"
    /\ lock = Free
    /\ jobs' = Insert(loc[c].id, loc[c].ref)
    /\ pc' = [pc EXCEPT ![c] = "go"]
    /\ UNCHANGED <<nextID, lock, heap, proc, ctx, sup, loc, ret, issued, failedIds>>

\* a Start that goes on without launching the goroutine
StartGoForgets(c) ==
    /\ pc[c] = "go"
    /\ pc' = [pc EXCEPT ![c] = "return"]
    /\ UNCHANGED <<nextID, jobs, lock, heap, proc, ctx, sup, loc, ret, issued,
                   failedIds>>

\* go func() { ... }()
StartGo(c) ==
    /\ pc[c] = "go"
    /\ sup' = [sup EXCEPT ![loc[c].ref].pc = "wait"]
    /\ pc' = [pc EXCEPT ![c] = "return"]
    /\ UNCHANGED <<nextID, jobs, lock, heap, proc, ctx, loc, ret, issued, failedIds>>

\* the value of the return statement: return job.Status, nil
StartResult(c) == heap[loc[c].ref].Status

\* return job.Status, nil   (read without the lock)
StartReturn(c) ==
    /\ pc[c] = "return"
    /\ ret' = Result("Start", loc[c].id, StartResult(c), "", FALSE, "", FALSE)
    /\ pc' = [pc EXCEPT ![c] = "idle"]
    /\ loc' = [loc EXCEPT ![c] = NoLoc]
    /\ UNCHANGED <<nextID, jobs, lock, heap, proc, ctx, sup, issued, failedIds>>

\* ------------------------------------------------------- the OS process
\* the process writes one byte to its standard output pipe
ProcWriteOut(o) ==
    /\ o \in Refs
    /\ proc[o].state = "running"
    /\ Len(proc[o].out) < WritesOut(heap[o].Command)
    /\ proc' = [proc EXCEPT ![o].out = @ \o "o"]
    /\ UNCHANGED <<nextID, jobs, lock, heap, ctx, sup, pc, loc, ret, issued, failedIds>>

\* the process writes one byte to its standard error pipe
ProcWriteErr(o) ==
    /\ o \in Refs
    /\ proc[o].state = "running"
    /\ Len(proc[o].err) < WritesErr(heap[o].Command)
    /\ proc' = [proc EXCEPT ![o].err = @ \o "e"]
    /\ UNCHANGED <<nextID, jobs, lock, heap, ctx, sup, pc, loc, ret, issued, failedIds>>

\* the process exits by itself with a code; it stays a zombie until waited for
ProcExit(o) ==
    /\ o \in Refs
    /\ proc[o].state = "running"
    /\ proc' = [proc EXCEPT ![o].state = "exited",
                            ![o].exit = ExitCodeOf(heap[o].Command)]
    /\ UNCHANGED <<nextID, jobs, lock, heap, ctx, sup, pc, loc, ret, issued, failedIds>>

\* exec.CommandContext: once the context is done the watcher kills the
\* process.  The kill of a process that is not yet reaped succeeds, and Wait
\* then reports the context's error.
WatchCtx(o) ==
    /\ o \in Refs
    /\ ctx[o].cancelled
    /\ ~ctx[o].watchErr
    /\ proc[o].state \in {"running", "exited"}
    /\ ctx' = [ctx EXCEPT ![o].watchErr = TRUE]
    /\ proc' = IF proc[o].state = "running"
               THEN [proc EXCEPT ![o].state = "exited", ![o].exit = Killed]
               ELSE proc
    /\ UNCHANGED <<nextID, jobs, lock, heap, sup, pc, loc, ret, issued, failedIds>>

\* ------------------------------------------------ the completion goroutine
\* the error cmd.Wait() returns for a process that has exited
WaitErr(o) == proc[o].exit # 0 \/ ctx[o].watchErr

\* a call that does not block until the process has exited
WaitReturnsEarly(o) == TRUE

\* cmd.Wait() blocks until the process has exited
WaitReturns(o) == proc[o].state = "exited"

\* err := cmd.Wait()
SupWait(o) ==
    /\ o \in Refs
    /\ sup[o].pc = "wait"
    /\ WaitReturns(o)
    /\ proc' = [proc EXCEPT ![o].state = "reaped"]
    /\ sup' = [sup EXCEPT ![o] = [pc |-> "lock", err |-> WaitErr(o)]]
    /\ UNCHANGED <<nextID, jobs, lock, heap, ctx, pc, loc, ret, issued, failedIds>>

\* the goroutine writes without taking the lock
AcquireNone(o) == Free

\* jobsMu.Lock() by the goroutine of job o
Acquire(o) == o

\* jobsMu.Lock(); job.Stdout = stdout.String(); job.Stderr = stderr.String()
SupLock(o) ==
    /\ o \in Refs
    /\ sup[o].pc = "lock"
    /\ lock = Free
    /\ lock' = Acquire(o)
    /\ heap' = [heap EXCEPT ![o].Stdout = proc[o].out, ![o].Stderr = proc[o].err]
    /\ sup' = [sup EXCEPT ![o].pc = "status"]
    /\ UNCHANGED <<nextID, jobs, proc, ctx, pc, loc, ret, issued, failedIds>>

\* a status string outside the four of the state machine
FinalStatusTypo(err) == IF err THEN "Failed" ELSE "Success"

\* if err != nil { "Failed" } else { "Succeeded" }
FinalStatus(err) == IF err THEN "Failed" ELSE "Succeeded"

\* a goroutine that writes the status into every job
SupSetStatusAllJobs(o) ==
    /\ o \in Refs
    /\ sup[o].pc = "status"
    /\ heap' = [q \in DOMAIN heap |->
                  [heap[q] EXCEPT !.Status = FinalStatus(sup[o].err)]]
    /\ sup' = [sup EXCEPT ![o].pc = "exit"]
    /\ UNCHANGED <<nextID, jobs, lock, proc, ctx, pc, loc, ret, issued, failedIds>>

\* job.Status = ...
SupSetStatus(o) ==
    /\ o \in Refs
    /\ sup[o].pc = "status"
    /\ heap' = [heap EXCEPT ![o].Status = FinalStatus(sup[o].err)]
    /\ sup' = [sup EXCEPT ![o].pc = "exit"]
    /\ UNCHANGED <<nextID, jobs, lock, proc, ctx, pc, loc, ret, issued, failedIds>>

\* the exit code compared with 0 instead of -1
FinalExitCodeNonZero(old, code) == IF code # 0 THEN <<code>> ELSE old

\* if exitCode := cmd.ProcessState.ExitCode(); exitCode != -1 { job.ExitCode = &exitCode }
FinalExitCode(old, code) == IF code # Killed THEN <<code>> ELSE old

\* the goroutine returns without unlocking
ReleaseForgotten(o) == o

\* defer jobsMu.Unlock()
Release(o) == Free

\* a goroutine that goes round again instead of returning
SupSetExitRepeats(o) ==
    /\ o \in Refs
    /\ sup[o].pc = "exit"
    /\ heap' = [heap EXCEPT ![o].ExitCode = FinalExitCode(@, proc[o].exit)]
    /\ sup' = [sup EXCEPT ![o].pc = "lock"]
    /\ lock' = Release(o)
    /\ UNCHANGED <<nextID, jobs, proc, ctx, pc, loc, ret, issued, failedIds>>

\* the write section of the goroutine as one function of the Job object:
\* what lines 173-184 make of j given Wait's error, the two buffers and
\* the exit code
Finalized(j, err, out, errOut, code) ==
    [j EXCEPT !.Stdout = out, !.Stderr = errOut,
              !.Status = FinalStatus(err),
              !.ExitCode = FinalExitCode(@, code)]

\* job.ExitCode = ...; deferred jobsMu.Unlock()
SupSetExit(o) ==
    /\ o \in Refs
    /\ sup[o].pc = "exit"
    /\ heap' = [heap EXCEPT ![o].ExitCode = FinalExitCode(@, proc[o].exit)]
    /\ sup' = [sup EXCEPT ![o].pc = "done"]
    /\ lock' = Release(o)
    /\ UNCHANGED <<nextID, jobs, proc, ctx, pc, loc, ret, issued, failedIds>>

\* ------------------------------------------------------ GetStatus, GetOutput
\* GetStatus without the !ok test: the zero value and no error
GetStatusNoCheck(id) ==
    IF ~Lookup(id).ok
    THEN Result("GetStatus", id, "", "", FALSE, "", FALSE)
    ELSE Result("GetStatus", id, heap[Lookup(id).ref].Status, "", FALSE,
                heap[Lookup(id).ref].Status, FALSE)

GetStatusResult(id) ==
    IF ~Lookup(id).ok
    THEN Result("GetStatus", id, "", "", TRUE, "", FALSE)
    ELSE Result("GetStatus", id, heap[Lookup(id).ref].Status, "", FALSE,
                heap[Lookup(id).ref].Status, FALSE)

GetStatus(c, id) ==
    /\ pc[c] = "idle"
    /\ lock = Free
    /\ ret' = GetStatusResult(id)
    /\ UNCHANGED <<nextID, jobs, lock, heap, proc, ctx, sup, pc, loc, issued, failedIds>>

GetOutputResult(id) ==
    IF ~Lookup(id).ok
    THEN Result("GetOutput", id, "", "", TRUE, "", FALSE)
    ELSE Result("GetOutput", id, heap[Lookup(id).ref].Stdout,
                heap[Lookup(id).ref].Stderr, FALSE,
                heap[Lookup(id).ref].Status, FALSE)

GetOutput(c, id) ==
    /\ pc[c] = "idle"
    /\ lock = Free
    /\ ret' = GetOutputResult(id)
    /\ UNCHANGED <<nextID, jobs, lock, heap, proc, ctx, sup, pc, loc, issued, failedIds>>

\* ---------------------------------------------------------------------- Stop
\* the context after job.cancel(): cancelling twice changes nothing more
Cancel(x) == [x EXCEPT !.cancelled = TRUE]

StopResult(id) ==
    IF ~Lookup(id).ok
    THEN Result("Stop", id, "", "", TRUE, "", FALSE)
    ELSE Result("Stop", id, "", "", FALSE, heap[Lookup(id).ref].Status,
                ctx[Lookup(id).ref].cancelled)

\* a Stop that also records the status itself
StopHeapMarksStopped(id) ==
    IF Lookup(id).ok THEN [heap EXCEPT ![Lookup(id).ref].Status = "Stopped"]
                     ELSE heap

\* the Job objects after Stop(id): Stop leaves every field as it is
StopHeap(id) == heap

Stop(c, id) ==
    /\ pc[c] = "idle"
    /\ lock = Free
    /\ ret' = StopResult(id)
    /\ ctx' = IF Lookup(id).ok
              THEN [ctx EXCEPT ![Lookup(id).ref] = Cancel(@)]
              ELSE ctx
    /\ heap' = StopHeap(id)
    /\ UNCHANGED <<nextID, jobs, lock, proc, sup, pc, loc, issued, failedIds>>

\* ---------------------------------------------------------------------- Next
Next ==
    \/ \E c \in Clients, inv \in Invocations : StartAlloc(c, inv)
    \/ \E c \in Clients : StartFail(c)
    \/ \E c \in Clients : StartSpawn(c)
    \/ \E c \in Clients : StartInsert(c)
    \/ \E c \in Clients : StartGo(c)
    \/ \E c \in Clients : StartReturn(c)
    \/ \E c \in Clients, id \in IdArgs : GetStatus(c, id)
    \/ \E c \in Clients, id \in IdArgs : GetOutput(c, id)
    \/ \E c \in Clients, id \in IdArgs : Stop(c, id)
    \/ \E o \in Refs : ProcWriteOut(o)
    \/ \E o \in Refs : ProcWriteErr(o)
    \/ \E o \in Refs : ProcExit(o)
    \/ \E o \in Refs : WatchCtx(o)
    \/ \E o \in Refs : SupWait(o)
    \/ \E o \in Refs : SupLock(o)
    \/ \E o \in Refs : SupSetStatus(o)
    \/ \E o \in Refs : SupSetExit(o)

Spec == Init /\ [][Next]_vars

\* The steps that change the registry, the jobs or their processes: Next
\* without the two read-only calls, whose only trace is the result record.
NextLifecycle ==
    \/ \E c \in Clients, inv \in Invocations : StartAlloc(c, inv)
    \/ \E c \in Clients : StartFail(c)
    \/ \E c \in Clients : StartSpawn(c)
    \/ \E c \in Clients : StartInsert(c)
    \/ \E c \in Clients : StartGo(c)
    \/ \E c \in Clients : StartReturn(c)
    \/ \E c \in Clients, id \in IdArgs : Stop(c, id)
    \/ \E o \in Refs : ProcWriteOut(o)
    \/ \E o \in Refs : ProcWriteErr(o)
    \/ \E o \in Refs : ProcExit(o)
    \/ \E o \in Refs : WatchCtx(o)
    \/ \E o \in Refs : SupWait(o)
    \/ \E o \in Refs : SupLock(o)
    \/ \E o \in Refs : SupSetStatus(o)
    \/ \E o \in Refs : SupSetExit(o)

\* The goroutines the Go scheduler keeps running: a Start call that has
\* begun goes on to its end, and a completion goroutine whose process has
\* exited goes on to record the outcome.  Nothing makes a process exit.
FairSpec ==
    /\ Init /\ [][NextLifecycle]_vars
    /\ \A c \in Clients :
          /\ WF_vars(StartInsert(c))
          /\ WF_vars(StartGo(c))
          /\ WF_vars(StartReturn(c))
    /\ \A o \in 1..MaxID :
          /\ WF_vars(SupWait(o))
          /\ WF_vars(SupLock(o))
          /\ WF_vars(SupSetStatus(o))
          /\ WF_vars(SupSetExit(o))

(***************************************************************************)
(* The HTTP server: tokens, permissions, the middleware, the four handlers *)
(* and the routes of main.                                                 *)
(***************************************************************************)

\* connections served at a time
NumConns == 1
Conns == 1..NumConns

\* strings.HasPrefix(s, prefix)
HasPrefix(s, prefix) ==
    Len(s) >= Len(prefix) /\ SubSeq(s, 1, Len(prefix)) = prefix

BearerPrefix == "Bearer "

\* auth[7:]
TokenOf(auth) == SubSeq(auth, Len(BearerPrefix) + 1, Len(auth))

RECURSIVE SplitFrom(_, _, _)
SplitFrom(s, i, cur) ==
    IF i > Len(s) THEN <<cur>>
    ELSE IF SubSeq(s, i, i) = "/" THEN <<cur>> \o SplitFrom(s, i + 1, "")
    ELSE SplitFrom(s, i + 1, cur \o SubSeq(s, i, i))

\* strings.Split(path, "/")
Split(path) == SplitFrom(path, 1, "")

\* var tokens: the role of each known token
Tokens ==
    [t \in {"admin-token-123", "operator-token-456", "viewer-token-789"} |->
        CASE t = "admin-token-123" -> "admin"
          [] t = "operator-token-456" -> "operator"
          [] t = "viewer-token-789" -> "viewer"]

\* role := ""; if t, exists := tokens[token]; exists { role = t.Role }
RoleOf(token) == IF token \in DOMAIN Tokens THEN Tokens[token] ELSE ""

\* a table in which the operator may stop jobs too
RolePermissionsOperatorStops ==
    [r \in {"admin", "operator", "viewer"} |->
        CASE r = "admin" -> {"start", "stop", "status", "output"}
          [] r = "operator" -> {"start", "stop", "status", "output"}
          [] r = "viewer" -> {"status", "output"}]

\* var rolePermissions: the actions mapped to true for each role
RolePermissions ==
    [r \in {"admin", "operator", "viewer"} |->
        CASE r = "admin" -> {"start", "stop", "status", "output"}
          [] r = "operator" -> {"start", "status", "output"}
          [] r = "viewer" -> {"status", "output"}]

\* func isAuthorized(role, action string) bool
IsAuthorized(role, action) ==
    IF role \notin DOMAIN RolePermissions THEN FALSE
    ELSE action \in RolePermissions[role]

\* an answer written with http.Error by the function `by`
Reply(by, code, msg, role) ==
    [by |-> by, code |-> code, msg |-> msg, role |-> role, next |-> 0,
     call |-> "", id |-> "", inv |-> <<>>, action |-> ""]

\* the request is handed on: next.ServeHTTP(w, r), once
PassOn(role) ==
    [by |-> "authMiddleware", code |-> "", msg |-> "", role |-> role,
     next |-> 1, call |-> "", id |-> "", inv |-> <<>>, action |-> ""]

\* a handler that goes on to call the core operation `call`
CallCore(by, call, id, inv) ==
    [by |-> by, code |-> "", msg |-> "", role |-> "", next |-> 0,
     call |-> call, id |-> id, inv |-> inv, action |-> ""]

\* a middleware that hands on every request with a known token
AuthMiddlewareNoForbidden(action, auth) ==
    IF auth = "" \/ ~HasPrefix(auth, BearerPrefix)
       \/ TokenOf(auth) \notin DOMAIN Tokens
    THEN Reply("authMiddleware", "401", "Unauthorized", "")
    ELSE PassOn(RoleOf(TokenOf(auth)))

\* func authMiddleware(action string): what it does with a request whose
\* Authorization header is auth
AuthMiddleware(action, auth) ==
    IF auth = "" THEN Reply("authMiddleware", "401", "Unauthorized", "")
    ELSE IF ~HasPrefix(auth, BearerPrefix)
    THEN Reply("authMiddleware", "401", "Unauthorized", "")
    ELSE IF TokenOf(auth) = ""
    THEN Reply("authMiddleware", "401", "Unauthorized", "")
    ELSE IF TokenOf(auth) \notin DOMAIN Tokens
    THEN Reply("authMiddleware", "401", "Unauthorized", "")
    ELSE IF RoleOf(TokenOf(auth)) = ""
    THEN Reply("authMiddleware", "401", "Unauthorized", "")
    ELSE IF ~IsAuthorized(RoleOf(TokenOf(auth)), action)
    THEN Reply("authMiddleware", "403", "Forbidden", RoleOf(TokenOf(auth)))
    ELSE PassOn(RoleOf(TokenOf(auth)))

\* request bodies
Bodies ==
    { "{\"command\":\"echo\",\"args\":[\"hello\"]}",
      "{\"command\":\"cat\",\"args\":[\"missing\"]}",
      "{\"command\":\"nosuch\"}",
      "{\"args\":[\"hello\"]}",
      "not json" }

\* json.NewDecoder(r.Body).Decode(&req)
Decode(body) ==
    CASE body = "{\"command\":\"echo\",\"args\":[\"hello\"]}" ->
             [ok |-> TRUE, Command |-> "echo", Args |-> <<"hello">>]
      [] body = "{\"command\":\"cat\",\"args\":[\"missing\"]}" ->
             [ok |-> TRUE, Command |-> "cat", Args |-> <<"missing">>]
      [] body = "{\"command\":\"nosuch\"}" ->
             [ok |-> TRUE, Command |-> "nosuch", Args |-> <<>>]
      [] body = "{\"args\":[\"hello\"]}" ->
             [ok |-> TRUE, Command |-> "", Args |-> <<"hello">>]
      [] body = "{\"command\":\"\"}" ->
             [ok |-> TRUE, Command |-> "", Args |-> <<>>]
      [] OTHER -> [ok |-> FALSE, Command |-> "", Args |-> <<>>]

\* a handler that looks at the token before it looks at the body
HandleStartJobAuthFirst(req) ==
    IF req.method # "POST"
    THEN Reply("handleStartJob", "405", "Method not allowed", "")
    ELSE IF ~HasPrefix(req.auth, BearerPrefix)
    THEN Reply("handleStartJob", "401", "Unauthorized", "")
    ELSE IF RoleOf(TokenOf(req.auth)) = ""
    THEN Reply("handleStartJob", "401", "Unauthorized", "")
    ELSE IF ~Decode(req.body).ok
    THEN Reply("handleStartJob", "400", "Invalid request body", "")
    ELSE IF Decode(req.body).Command = ""
    THEN Reply("handleStartJob", "400", "Command is required", "")
    ELSE CallCore("handleStartJob", "Start", "",
                  [cmd |-> Decode(req.body).Command,
                   args |-> Decode(req.body).Args])

\* func handleStartJob, up to its call of jobworker.Start
HandleStartJob(req) ==
    IF req.method # "POST"
    THEN Reply("handleStartJob", "405", "Method not allowed", "")
    ELSE IF ~Decode(req.body).ok
    THEN Reply("handleStartJob", "400", "Invalid request body", "")
    ELSE IF Decode(req.body).Command = ""
    THEN Reply("handleStartJob", "400", "Command is required", "")
    ELSE IF ~HasPrefix(req.auth, BearerPrefix)
    THEN Reply("handleStartJob", "401", "Unauthorized", "")
    ELSE IF RoleOf(TokenOf(req.auth)) = ""
    THEN Reply("handleStartJob", "401", "Unauthorized", "")
    ELSE CallCore("handleStartJob", "Start", "",
                  [cmd |-> Decode(req.body).Command,
                   args |-> Decode(req.body).Args])

\* len(pathParts) < 4
MinPathParts == 4

\* id := pathParts[3], counted from 0
IdIndex == 3

\* the common shape of handleStopJob, handleGetStatus and handleGetOutput,
\* up to the call of the core operation
HandleById(by, method, call, req) ==
    IF req.method # method
    THEN Reply(by, "405", "Method not allowed", "")
    ELSE IF Len(Split(req.path)) < MinPathParts
    THEN Reply(by, "400", "Invalid URL - missing job ID", "")
    ELSE IF Split(req.path)[IdIndex + 1] = ""
    THEN Reply(by, "400", "Invalid URL - empty job ID", "")
    ELSE CallCore(by, call, Split(req.path)[IdIndex + 1], <<>>)

HandleStopJob(req) == HandleById("handleStopJob", "PUT", "Stop", req)
HandleGetStatus(req) == HandleById("handleGetStatus", "GET", "GetStatus", req)
HandleGetOutput(req) == HandleById("handleGetOutput", "GET", "GetOutput", req)

\* a mux on which the stop route is guarded as a status route
RouteStopAsStatus(path) ==
    IF path = "/jobs/start" THEN [action |-> "start", handler |-> "start"]
    ELSE IF HasPrefix(path, "/jobs/stop/")
    THEN [action |-> "status", handler |-> "stop"]
    ELSE IF HasPrefix(path, "/jobs/status/")
    THEN [action |-> "status", handler |-> "status"]
    ELSE IF HasPrefix(path, "/jobs/output/")
    THEN [action |-> "output", handler |-> "output"]
    ELSE [action |-> "", handler |-> ""]

\* the routes of main: the action the middleware guards and the handler it
\* wraps, for the pattern that matches path
Route(path) ==
    IF path = "/jobs/start" THEN [action |-> "start", handler |-> "start"]
    ELSE IF HasPrefix(path, "/jobs/stop/")
    THEN [action |-> "stop", handler |-> "stop"]
    ELSE IF HasPrefix(path, "/jobs/status/")
    THEN [action |-> "status", handler |-> "status"]
    ELSE IF HasPrefix(path, "/jobs/output/")
    THEN [action |-> "output", handler |-> "output"]
    ELSE [action |-> "", handler |-> ""]

Handler(name, req) ==
    CASE name = "start" -> HandleStartJob(req)
      [] name = "stop" -> HandleStopJob(req)
      [] name = "status" -> HandleGetStatus(req)
      [] name = "output" -> HandleGetOutput(req)

Methods == {"GET", "POST", "PUT"}

AuthHeaders ==
    { "", "Basic admin-token-123", BearerPrefix,
      BearerPrefix \o "no-such-token",
      BearerPrefix \o "admin-token-123",
      BearerPrefix \o "operator-token-456",
      BearerPrefix \o "viewer-token-789" }

Paths ==
    { "/jobs/start", "/jobs/stop/" \o Itoa(1), "/jobs/status/" \o Itoa(1),
      "/jobs/output/" \o Itoa(1), "/jobs/status/", "/jobs" }

\* the requests sent: a body goes with the start route only
Requests ==
    { r \in [method : Methods, path : Paths, auth : AuthHeaders,
             body : Bodies \cup {""}] :
        (r.body # "") <=> (r.path = "/jobs/start") }

\* what the server does with req: the mux picks the route, the middleware
\* answers or hands on, the wrapped handler answers or calls the core
ServePlan(req) ==
    LET route == Route(req.path) IN
    IF route.action = ""
    THEN Reply("mux", "404", "404 page not found", "")
    ELSE LET m == AuthMiddleware(route.action, req.auth) IN
         IF m.next = 0 THEN [m EXCEPT !.action = route.action]
         ELSE [Handler(route.handler, req) EXCEPT !.action = route.action]

\* every request with what the server does with it
Exchanges == {[req |-> r, plan |-> ServePlan(r)] : r \in Requests}

\* the answer is written and nothing else happens
Respond(a) ==
    /\ ret' = Result(a.by, a.action, a.code, a.msg, TRUE, a.role, FALSE)
    /\ UNCHANGED <<nextID, jobs, lock, heap, proc, ctx, sup, pc, loc,
                   issued, failedIds>>

\* connection c does what was decided for its request: the answer is
\* written, or the core operation the handler reached is called
Carry(c, p) ==
    /\ pc[c] = "idle"
    /\ IF p.call = "" THEN Respond(p)
       ELSE CASE p.call = "Start" -> StartAlloc(c, p.inv)
              [] p.call = "Stop" -> Stop(c, p.id)
              [] p.call = "GetStatus" -> GetStatus(c, p.id)
              [] p.call = "GetOutput" -> GetOutput(c, p.id)

\* the server takes the request x.req on connection c
Serve(c, x) == Carry(c, x.plan)

HttpNext ==
    \/ \E c \in Conns, x \in Exchanges : Serve(c, x)
    \/ \E c \in Conns : StartFail(c)
    \/ \E c \in Conns : StartSpawn(c)
    \/ \E c \in Conns : StartInsert(c)
    \/ \E c \in Conns : StartGo(c)
    \/ \E c \in Conns : StartReturn(c)
    \/ \E o \in Refs : ProcWriteOut(o)
    \/ \E o \in Refs : ProcWriteErr(o)
    \/ \E o \in Refs : ProcExit(o)
    \/ \E o \in Refs : WatchCtx(o)
    \/ \E o \in Refs : SupWait(o)
    \/ \E o \in Refs : SupLock(o)
    \/ \E o \in Refs : SupSetStatus(o)
    \/ \E o \in Refs : SupSetExit(o)

\* the program as the server runs it: the core is reached through requests
HttpSpec == Init /\ [][HttpNext]_vars

\* the requests handed to handleStartJob itself, as the handler tests and
\* the server without middleware do: any method, header and body
DirectRequests ==
    [method : Methods, path : {"/jobs/start"}, auth : AuthHeaders,
     body : Bodies \cup {"{\"command\":\"\"}", ""}]

\* every such request with what handleStartJob does with it
DirectExchanges ==
    {[req |-> r, plan |-> [HandleStartJob(r) EXCEPT !.action = "start"]] :
        r \in DirectRequests}

\* handler.ServeHTTP(rr, req) with handler = handleStartJob
ServeDirect(c, x) == Carry(c, x.plan)

DirectNext ==
    \/ \E c \in Conns, x \in DirectExchanges : ServeDirect(c, x)
    \/ \E c \in Conns : StartFail(c)
    \/ \E c \in Conns : StartSpawn(c)
    \/ \E c \in Conns : StartInsert(c)
    \/ \E c \in Conns : StartGo(c)
    \/ \E c \in Conns : StartReturn(c)
    \/ \E o \in Refs : ProcWriteOut(o)
    \/ \E o \in Refs : ProcWriteErr(o)
    \/ \E o \in Refs : ProcExit(o)
    \/ \E o \in Refs : SupWait(o)
    \/ \E o \in Refs : SupLock(o)
    \/ \E o \in Refs : SupSetStatus(o)
    \/ \E o \in Refs : SupSetExit(o)

\* handleStartJob served without the middleware in front of it
DirectSpec == Init /\ [][DirectNext]_vars

\* --------------------------------------------------------------------- Clear
\* the callers that are inside Start
InStart == {c \in Clients : pc[c] # "idle"}

RECURSIVE CallersString(_)
\* a set of callers written as a string, smallest first
CallersString(S) ==
    IF S = {} THEN ""
    ELSE LET c == CHOOSE x \in S : \A y \in S : x <= y
         IN  Itoa(c) \o "," \o CallersString(S \ {c})

\* Clear(), as the tests use it before each case: under the lock, the
\* registry is emptied and the counter starts again at 1. It is taken only
\* while fewer than MaxID ids have been issued, to keep the jobs few.
Clear(c) ==
    /\ pc[c] = "idle"
    /\ lock = Free
    /\ Len(issued) < MaxID
    /\ jobs' = [k \in {} |-> NoRef]
    /\ nextID' = 1
    /\ ret' = Result("Clear", "", "", "", FALSE, CallersString(InStart), FALSE)
    /\ UNCHANGED <<lock, heap, proc, ctx, sup, pc, loc, issued, failedIds>>

ClearNext ==
    \/ \E c \in Clients, inv \in Invocations : StartAlloc(c, inv)
    \/ \E c \in Clients : StartFail(c)
    \/ \E c \in Clients : StartSpawn(c)
    \/ \E c \in Clients : StartInsert(c)
    \/ \E c \in Clients : StartGo(c)
    \/ \E c \in Clients : StartReturn(c)
    \/ \E c \in Clients : Clear(c)
    \/ \E o \in Refs : ProcWriteOut(o)
    \/ \E o \in Refs : ProcWriteErr(o)
    \/ \E o \in Refs : ProcExit(o)
    \/ \E o \in Refs : SupWait(o)
    \/ \E o \in Refs : SupLock(o)
    \/ \E o \in Refs : SupSetStatus(o)
    \/ \E o \in Refs : SupSetExit(o)

\* Start and the jobs it starts, with Clear called in between
ClearSpec == Init /\ [][ClearNext]_vars

\* ------------------------------------------------------------------ claims
\* the record GetStatus and GetOutput read for a registered id
JobOf(id) == heap[jobs[id]]

\* C1: whenever Start returns without error, the string it returns is the
\* identifier allocated for the job, and the job is registered under it.
C1_StartReturnsRegisteredId ==
    (ret.op = "Start" /\ ~ret.err) =>
        (ret.val = ret.arg /\ ret.val \in DOMAIN jobs)

\* C2: the identifiers allocated to Start calls, in any interleaving, are
\* pairwise distinct: no identifier is allocated twice.
C2_IdsPairwiseDistinct ==
    \A i, j \in 1..Len(issued) : i # j => issued[i] # issued[j]

\* two Start calls are in progress at once, each with its identifier
C2_Witness ==
    /\ Len(issued) >= 2
    /\ \A c \in Clients : pc[c] # "idle"

\* C3: a job stopped while its process was still running (the cancellation
\* killed the process) never has status Failed.
C3_KilledNeverFailed ==
    \A o \in Refs : proc[o].exit = Killed => heap[o].Status # "Failed"

\* C4: for every registered id the status only ever changes from Running to
\* one of Succeeded, Failed, Stopped; a terminal status never changes.
C4_StatusOnlyLeavesRunning ==
    [][\A id \in DOMAIN jobs :
          /\ id \in DOMAIN jobs'
          /\ (JobOf(id)'.Status # JobOf(id).Status =>
                 /\ JobOf(id).Status = "Running"
                 /\ JobOf(id)'.Status \in Terminal)]_vars

\* a job has finished while another is still running
C4_Witness ==
    \E id, other \in DOMAIN jobs :
        /\ JobOf(id).Status \in Terminal
        /\ sup[jobs[id]].pc = "done"
        /\ JobOf(other).Status = "Running"

\* C5: a Start whose process cannot be started returns an error and leaves
\* the registry and every job record as they were, and the identifier it
\* was allocated is never registered afterwards.
C5_FailedStartRegistersNothing ==
    /\ [][(\E c \in Clients : StartFail(c)) =>
             /\ ret'.err /\ ret'.val = ""
             /\ jobs' = jobs /\ heap' = heap]_vars
    /\ [](/\ failedIds \cap DOMAIN jobs = {}
          /\ \A o \in Refs : heap[o].ID \notin failedIds)

\* a Start failed and a later Start registered its job
C5_Witness ==
    /\ ret.op = "Start" /\ ret.err
    /\ failedIds = {Itoa(1)}
    /\ Itoa(2) \in DOMAIN jobs

\* what the completion goroutine must have recorded for a process that
\* exited with code 0
RecordedSuccess(o) ==
    /\ heap[o].Status = "Succeeded"
    /\ heap[o].ExitCode = <<0>>
    /\ heap[o].Stdout = proc[o].out
    /\ heap[o].Stderr = proc[o].err

\* C6: under fairness of the completion goroutine, a registered job whose
\* process exits with code 0 and is not cancelled eventually has status
\* Succeeded, exit code 0 and the whole captured output; and that is what
\* its goroutine has recorded whenever it has finished.
C6_ExitZeroEventuallySucceeded ==
    /\ \A o \in 1..MaxID :
          (/\ o \in Refs
           /\ \E id \in DOMAIN jobs : jobs[id] = o
           /\ proc[o].state # "running"
           /\ proc[o].exit = 0)
          ~> (o \in Refs /\ (RecordedSuccess(o) \/ ctx[o].cancelled))
    /\ [](\A o \in Refs :
             (sup[o].pc = "done" /\ proc[o].exit = 0 /\ ~ctx[o].cancelled)
                 => RecordedSuccess(o))

\* a job that wrote output, exited with 0 and was never cancelled is recorded
C6_Witness ==
    \E o \in Refs :
        /\ RecordedSuccess(o)
        /\ heap[o].Stdout # ""
        /\ ~ctx[o].cancelled

C8_UnknownIdFails ==
    [][\A c \in Clients, id \in IdArgs :
          (id \notin DOMAIN jobs
             /\ (GetStatus(c, id) \/ GetOutput(c, id) \/ Stop(c, id))) =>
          /\ ret'.err
          /\ ret'.val = "" /\ ret'.val2 = ""
          /\ UNCHANGED <<nextID, jobs, heap, proc, ctx, sup>>]_vars

\* a call with an id that was never issued, and one with an id not yet
\* registered, failed while another job was registered
C8_Witness ==
    /\ ret.err
    /\ ret.op \in {"GetStatus", "GetOutput", "Stop"}
    /\ ret.arg \notin DOMAIN jobs
    /\ DOMAIN jobs # {}

\* C9: Stop on a registered job returns no error and changes no job record;
\* a second Stop changes nothing at all, and the fields a completion
\* goroutine has recorded stay as they are whatever is called afterwards.
C9_StopIdempotent ==
    [][/\ \A c \in Clients, id \in DOMAIN jobs :
             Stop(c, id) =>
                 /\ ~ret'.err
                 /\ heap' = heap /\ jobs' = jobs
                 /\ (ctx[jobs[id]].cancelled =>
                        UNCHANGED <<nextID, jobs, heap, proc, ctx, sup>>)
       /\ \A o \in Refs : sup[o].pc = "done" => heap'[o] = heap[o]]_vars

\* a second Stop on a job that had already reached a terminal status
C9_Witness ==
    /\ ret.op = "Stop" /\ ~ret.err
    /\ ret.seen \in Terminal
    /\ ret.again
    /\ JobOf(ret.arg).Status = ret.seen

\* C10: a GetStatus that directly follows a successful Stop of a job that
\* was Running, while the job's process is still running, returns Stopped.
C10_StatusRightAfterStop ==
    [][\A c \in Clients, id \in DOMAIN jobs :
          (/\ GetStatus(c, id)
           /\ ret.op = "Stop" /\ ret.arg = id /\ ~ret.err
           /\ ret.seen = "Running"
           /\ proc[jobs[id]].state = "running") =>
          ret'.val = "Stopped"]_vars

\* the pairs of role and action the permission table allows
C12_Allowed ==
    {<<"admin", a>> : a \in {"start", "stop", "status", "output"}}
        \cup {<<"operator", a>> : a \in {"start", "status", "output"}}
        \cup {<<"viewer", a>> : a \in {"status", "output"}}

\* the registry and everything the core operations touch
core == <<nextID, jobs, lock, heap, proc, ctx, sup, pc, loc, issued,
          failedIds>>

\* the role a header's bearer token resolves to, "" for none
C11_RoleOfHeader(h) ==
    CASE h = "Bearer admin-token-123" -> "admin"
      [] h = "Bearer operator-token-456" -> "operator"
      [] h = "Bearer viewer-token-789" -> "viewer"
      [] OTHER -> ""

\* the action of the route main wires for a path, "" for none
C11_ActionOfPath(path) ==
    CASE path = "/jobs/start" -> "start"
      [] path = "/jobs/stop/1" -> "stop"
      [] path \in {"/jobs/status/1", "/jobs/status/"} -> "status"
      [] path = "/jobs/output/1" -> "output"
      [] OTHER -> ""

\* the requests whose token resolves to a role permitted the route's action
C11_Permitted ==
    {x \in Exchanges :
        <<C11_RoleOfHeader(x.req.auth), C11_ActionOfPath(x.req.path)>>
            \in C12_Allowed}

\* the other requests
C11_Refused == Exchanges \ C11_Permitted

\* what the server does with the permitted and with the other requests
C11_PermittedPlans == {x.plan : x \in C11_Permitted}
C11_RefusedPlans == {x.plan : x \in C11_Refused}

\* a step in which the idle connection c ran a handler: it entered Start,
\* or, no connection moving, a handler or a core operation wrote its result
\* or a job was cancelled
C11_HandlerStep(c) ==
    /\ pc[c] = "idle"
    /\ \/ pc'[c] # "idle"
       \/ pc' = pc /\ ret' # ret /\ ret'.op \notin {"mux", "authMiddleware"}
       \/ pc' = pc /\ \E o \in Refs : ctx'[o].cancelled # ctx[o].cancelled

\* C11: a request that is not of a permitted role for its route is answered
\* by the mux or the middleware, and such an answer leaves the registry and
\* every job as they were; a step that runs a handler, and so Start, Stop,
\* GetStatus or GetOutput, is the serving of a permitted request and of no
\* other.
C11_CoreOnlyForPermitted ==
    /\ [](\A x \in C11_Refused :
             x.plan.call = "" /\ x.plan.by \in {"mux", "authMiddleware"})
    /\ [][(ret' # ret /\ ret'.op \in {"mux", "authMiddleware"}) =>
             UNCHANGED core]_vars
    /\ [][\A c \in Conns :
             C11_HandlerStep(c) =>
                 /\ \E p \in C11_PermittedPlans : Carry(c, p)
                 /\ \A p \in C11_RefusedPlans : ~Carry(c, p)]_vars

\* a viewer's stop request was answered 403 and the running job it named
\* was not cancelled
C11_Witness ==
    /\ ret.op = "authMiddleware" /\ ret.val = "403"
    /\ ret.arg = "stop" /\ ret.seen = "viewer"
    /\ Itoa(1) \in DOMAIN jobs
    /\ JobOf(Itoa(1)).Status = "Running"
    /\ ~ctx[jobs[Itoa(1)]].cancelled

\* C12: isAuthorized is true for exactly the pairs of the table: admin with
\* the four actions, operator with start, status and output, viewer with
\* status and output; it is false for unknown roles and unknown actions, and
\* a 403 is only ever answered to a known role for an action outside the
\* table.
C12_IsAuthorizedTable ==
    /\ \A role \in {"admin", "operator", "viewer", "guest", ""} :
          \A action \in {"start", "stop", "status", "output", "delete", ""} :
             IsAuthorized(role, action) <=> <<role, action>> \in C12_Allowed
    /\ (ret.op = "authMiddleware" /\ ret.val = "403") =>
          /\ ret.seen \in {"admin", "operator", "viewer"}
          /\ <<ret.seen, ret.arg>> \notin C12_Allowed

\* an operator was refused the stop action
C12_Witness ==
    /\ ret.op = "authMiddleware" /\ ret.val = "403"
    /\ ret.arg = "stop" /\ ret.seen = "operator"

\* the headers without a usable token: missing, no "Bearer " prefix, empty
\* token, unknown token
C13_NoToken ==
    {"", "Basic admin-token-123", "Bearer ", "Bearer no-such-token"}

\* what the claim has authMiddleware(action) do with a header: the status
\* it answers, "" when it calls the wrapped handler
C13_Expected(action, h) ==
    IF h \in C13_NoToken THEN "401"
    ELSE IF <<C11_RoleOfHeader(h), action>> \notin C12_Allowed THEN "403"
    ELSE ""

\* the requests on a route that the middleware is to answer itself
C13_Answered ==
    {x \in Exchanges :
        /\ C11_ActionOfPath(x.req.path) # ""
        /\ C13_Expected(C11_ActionOfPath(x.req.path), x.req.auth) # ""}

\* the requests on a route that the middleware is to hand on
C13_HandedOn ==
    {x \in Exchanges :
        /\ C11_ActionOfPath(x.req.path) # ""
        /\ C13_Expected(C11_ActionOfPath(x.req.path), x.req.auth) = ""}

\* what the server does with the requests the middleware is to answer
C13_AnsweredPlans == {x.plan : x \in C13_Answered}

\* C13: authMiddleware answers 401 for a missing header, a header without
\* the prefix, an empty or unknown token, 403 for a known token whose role
\* is not permitted the action, and in both cases does not call the wrapped
\* handler: the answer is the middleware's and the step that writes it
\* changes nothing else; otherwise it calls the handler once, so it is the
\* handler that answers or calls the core, and a step that runs a handler
\* serves no request of the 401 and 403 cases.
C13_MiddlewareAnswers ==
    /\ [](\A action \in {"start", "stop", "status", "output"} :
            \A h \in AuthHeaders :
               LET m == AuthMiddleware(action, h) IN
               /\ m.code = C13_Expected(action, h)
               /\ m.next = IF C13_Expected(action, h) = "" THEN 1 ELSE 0
               /\ m.code # "" => m.by = "authMiddleware")
    /\ [](\A x \in C13_Answered :
             /\ x.plan.by = "authMiddleware" /\ x.plan.call = ""
             /\ x.plan.code =
                    C13_Expected(C11_ActionOfPath(x.req.path), x.req.auth))
    /\ [](\A x \in C13_HandedOn :
             x.plan.by \in {"handleStartJob", "handleStopJob",
                            "handleGetStatus", "handleGetOutput"})
    /\ [][(ret' # ret /\ ret'.op = "authMiddleware") =>
             (ret'.val \in {"401", "403"} /\ UNCHANGED core)]_vars
    /\ [][\A c \in Conns :
             C11_HandlerStep(c) =>
                 \A p \in C13_AnsweredPlans : ~Carry(c, p)]_vars

\* a request without the prefix was answered 401 while a job was registered
C13_Witness ==
    /\ ret.op = "authMiddleware" /\ ret.val = "401"
    /\ ret.val2 = "Unauthorized"
    /\ DOMAIN jobs # {}

\* C14: a task reads a field of a registered job only while it holds the
\* registry lock, so never while a goroutine is inside its write section;
\* this includes the read by which Start computes its return value.
C14_ReadsHoldLock ==
    [][\A c \in Clients : StartReturn(c) => lock = Free]_vars

\* C15: a job whose process exited by itself is recorded Succeeded for exit
\* code 0 and Failed otherwise, whatever Stop is called after the exit.
C15_NaturalExitStatus ==
    \A o \in Refs :
        (sup[o].pc = "done" /\ proc[o].exit # Killed) =>
            heap[o].Status = IF proc[o].exit = 0 THEN "Succeeded" ELSE "Failed"

ExitCodeFor(code) == IF code = Killed THEN <<>> ELSE <<code>>

\* C17: whenever a reader can run, every job is either untouched (Running,
\* no output, no exit code) or wholly recorded (terminal status, both
\* buffers, the exit code), and GetStatus and GetOutput run only then.
C17_WritesAreOneStep ==
    /\ [](lock = Free =>
            \A o \in Refs :
               /\ heap[o].Status \in Terminal <=> sup[o].pc = "done"
               /\ heap[o].Status \in Terminal =>
                     /\ heap[o].Stdout = proc[o].out
                     /\ heap[o].Stderr = proc[o].err
                     /\ heap[o].ExitCode = ExitCodeFor(proc[o].exit)
               /\ heap[o].Status = "Running" =>
                     /\ heap[o].Stdout = "" /\ heap[o].Stderr = ""
                     /\ heap[o].ExitCode = <<>>)
    /\ [][(\E c \in Clients, id \in IdArgs :
              GetStatus(c, id) \/ GetOutput(c, id)) =>
             (lock = Free /\ \A o \in Refs : sup[o].pc \notin {"status", "exit"})]_vars

\* a goroutine is between its writes (output written, status still Running)
\* while a caller is ready to read
C17_Witness ==
    /\ lock \in Refs
    /\ sup[lock].pc = "status"
    /\ heap[lock].Stdout # ""
    /\ heap[lock].Status = "Running"
    /\ \E c \in Clients : pc[c] = "idle"

SupRank(p) ==
    CASE p = "none" -> 0 [] p = "wait" -> 1 [] p = "lock" -> 2
      [] p = "status" -> 3 [] p = "exit" -> 4 [] p = "done" -> 5

C19_LockNeverHeldAcrossWait ==
    /\ lock # Free =>
          /\ lock \in Refs
          /\ sup[lock].pc \in {"status", "exit"}
          /\ proc[lock].state = "reaped"
          /\ ENABLED (SupSetStatus(lock) \/ SupSetExit(lock))
    /\ lock = Free =>
          \A c \in Clients :
             /\ pc[c] = "idle" =>
                   /\ ENABLED GetStatus(c, Itoa(1))
                   /\ ENABLED GetOutput(c, Itoa(1))
                   /\ ENABLED Stop(c, Itoa(1))
                   /\ nextID <= MaxID =>
                         \A inv \in Invocations : ENABLED StartAlloc(c, inv)
             /\ pc[c] = "spawn" => ENABLED (StartFail(c) \/ StartSpawn(c))
             /\ pc[c] = "insert" => ENABLED StartInsert(c)
             /\ pc[c] = "go" => ENABLED StartGo(c)
             /\ pc[c] = "return" => ENABLED StartReturn(c)

\* a call completed while a job's process was still running and its
\* goroutine was waiting for it
C19_Witness ==
    /\ lock = Free
    /\ ret.op = "GetStatus" /\ ~ret.err /\ ret.val = "Running"
    /\ ret.arg \in DOMAIN jobs
    /\ proc[jobs[ret.arg]].state = "running"
    /\ sup[jobs[ret.arg]].pc = "wait"

\* C20: a registered id keeps referring to the same Job object, with the
\* same id, after every later step; two ids never share an object; and an
\* id allocated to a Start that returned without error is registered.
C20_RegisteredIdsKeepTheirJob ==
    /\ [][\A id \in DOMAIN jobs :
             /\ id \in DOMAIN jobs'
             /\ jobs'[id] = jobs[id]
             /\ heap'[jobs[id]].ID = heap[jobs[id]].ID]_vars
    /\ [](\A id1, id2 \in DOMAIN jobs : jobs[id1] = jobs[id2] => id1 = id2)
    /\ []((ret.op = "Start" /\ ~ret.err) => ret.arg \in DOMAIN jobs)

\* a second job was started and registered after the first had finished
C20_Witness ==
    /\ ret.op = "Start" /\ ~ret.err /\ ret.arg = Itoa(2)
    /\ DOMAIN jobs = {Itoa(1), Itoa(2)}
    /\ JobOf(Itoa(1)).Status \in Terminal
    /\ jobs[Itoa(1)] # jobs[Itoa(2)]

\* C21: every step leaves each job's id, command and args as they were
\* created, and a write of job o's goroutine changes no field of any other
\* job.
C21_FinalizeFrame ==
    [][\A o \in Refs :
          /\ heap'[o].ID = heap[o].ID
          /\ heap'[o].Command = heap[o].Command
          /\ heap'[o].Args = heap[o].Args
          /\ (SupLock(o) \/ SupSetStatus(o) \/ SupSetExit(o)) =>
                \A q \in Refs \ {o} : heap'[q] = heap[q]]_vars

\* one job has been recorded while another, registered, is still as created
C21_Witness ==
    \E o, q \in Refs :
        /\ o # q
        /\ sup[o].pc = "done"
        /\ heap[o].Status \in Terminal
        /\ sup[q].pc = "wait"
        /\ heap[q] = NewJob(heap[q].ID,
                            [cmd |-> heap[q].Command, args |-> heap[q].Args])

\* C22: a Running job has no exit code; once its goroutine is done the exit
\* code is the code the process reported when that is not -1, and absent
\* when the process was killed by a signal (reported -1).
C22_ExitCodePresence ==
    \A o \in Refs :
        /\ heap[o].Status = "Running" => heap[o].ExitCode = <<>>
        /\ sup[o].pc = "done" =>
              /\ proc[o].exit # Killed => heap[o].ExitCode = <<proc[o].exit>>
              /\ proc[o].exit = Killed => heap[o].ExitCode = <<>>

\* a job killed by the signal was recorded, without exit code
C22_Witness ==
    \E o \in Refs :
        /\ sup[o].pc = "done" /\ proc[o].exit = Killed
        /\ heap[o].Status \in Terminal
        /\ heap[o].ExitCode = <<>>

\* the job o is in the registry
Registered(o) == \E id \in DOMAIN jobs : jobs[id] = o

\* the goroutine of job o has been launched and is not done
Supervised(o) == sup[o].pc \in {"wait", "lock", "status", "exit"}

\* C25 as stated: in every state a registered Running job has its goroutine
\* launched and not done, a job with a terminal status has none left, and
\* no goroutine exists for a job that is not registered.
C25_OneSupervisorAlways ==
    \A o \in Refs :
        /\ (Registered(o) /\ heap[o].Status = "Running") => Supervised(o)
        /\ heap[o].Status \in Terminal => ~Supervised(o)
        /\ sup[o].pc # "none" => Registered(o)

\* job o is registered and the Start that registered it has not yet reached
\* its go statement
BeingLaunched(o) == \E c \in Clients : pc[c] = "go" /\ loc[c].ref = o

\* C25 as amended: a registered Running job has its goroutine launched and
\* not done, except while the Start that registered it is between the
\* insertion and the go statement; whenever the lock is free a job with a
\* terminal status has no goroutine left; no goroutine exists for a job
\* that is not registered, and a goroutine that is done stays done.
C25_OneSupervisorOnceLaunched ==
    /\ [](\A o \in Refs :
             /\ (Registered(o) /\ heap[o].Status = "Running") =>
                   (Supervised(o) \/ (BeingLaunched(o) /\ sup[o].pc = "none"))
             /\ (lock = Free /\ heap[o].Status \in Terminal) => sup[o].pc = "done"
             /\ sup[o].pc # "none" => Registered(o))
    /\ [][\A o \in Refs :
             /\ sup[o].pc # "none" => sup'[o].pc # "none"
             /\ sup[o].pc = "done" => sup'[o].pc = "done"]_vars

\* a registered Running job that a reader can see and whose goroutine has
\* not been launched yet
C25_Witness ==
    \E o \in Refs :
        /\ Registered(o) /\ heap[o].Status = "Running"
        /\ sup[o].pc = "none"
        /\ BeingLaunched(o)
        /\ lock = Free
        /\ \E c \in Clients : pc[c] = "idle"

\* C26: the counter never decreases and moves by one, exactly in the step
\* in which a Start takes its id, also when that Start then fails; every
\* registered id and every id of a failed Start is the decimal form of a
\* number below the counter; the job under a key has the key as its ID.
C26_CounterAndKeys ==
    /\ [][/\ nextID' \in {nextID, nextID + 1}
          /\ \A c \in Clients :
                (pc[c] = "idle" /\ pc'[c] = "spawn") <=>
                    (pc[c] = "idle" /\ pc'[c] # "idle" /\ nextID' = nextID + 1)]_vars
    /\ [](\A id \in DOMAIN jobs \cup failedIds :
             \E n \in 1..(nextID - 1) : Itoa(n) = id)
    /\ [](\A id \in DOMAIN jobs : JobOf(id).ID = id)

\* a Start failed, a later Start registered its job, the counter is past both
C26_Witness ==
    /\ failedIds = {Itoa(1)}
    /\ DOMAIN jobs = {Itoa(2)}
    /\ JobOf(Itoa(2)).ID = Itoa(2)
    /\ nextID = 3

\* the answer the claim has handleStartJob give, <<"", "">> when it is to
\* call Start: method, then body, then command, then token
C23_Expected(req) ==
    IF req.method # "POST" THEN <<"405", "Method not allowed">>
    ELSE IF req.body \in {"not json", ""}
    THEN <<"400", "Invalid request body">>
    ELSE IF req.body \in {"{\"args\":[\"hello\"]}", "{\"command\":\"\"}"}
    THEN <<"400", "Command is required">>
    ELSE IF C11_RoleOfHeader(req.auth) = "" THEN <<"401", "Unauthorized">>
    ELSE <<"", "">>

\* what the handler does with the requests it is to answer itself, and with
\* those for which it is to call Start
C23_RejectedPlans ==
    {x.plan : x \in {y \in DirectExchanges : C23_Expected(y.req) # <<"", "">>}}
C23_AcceptedPlans ==
    {x.plan : x \in {y \in DirectExchanges : C23_Expected(y.req) = <<"", "">>}}

\* C23: handleStartJob answers 405 to a method other than POST, else 400 to
\* a body that does not decode, else 400 to an empty or missing command,
\* else 401 to a missing, malformed or unknown token, and calls Start for
\* the decoded command only when none of these applies; an answer of the
\* handler leaves the registry, the counter and every job as they were, and
\* a step that enters Start serves no request of the answered kinds.
C23_StartHandlerChecks ==
    /\ [](\A x \in DirectExchanges :
             /\ <<x.plan.code, x.plan.msg>> = C23_Expected(x.req)
             /\ x.plan.call = "Start" <=> C23_Expected(x.req) = <<"", "">>
             /\ x.plan.call = "Start" =>
                   /\ x.plan.inv \in Invocations
                   /\ x.plan.inv.cmd # "")
    /\ [][(ret' # ret /\ ret'.op = "handleStartJob") => UNCHANGED core]_vars
    /\ [][\A c \in Conns :
             (pc[c] = "idle" /\ pc'[c] # "idle") =>
                 /\ \E p \in C23_AcceptedPlans : Carry(c, p)
                 /\ \A p \in C23_RejectedPlans : ~Carry(c, p)]_vars

\* a well-formed POST with an unknown token was answered 401 by the handler
\* after a job had been registered, and the counter stands where it stood
C23_Witness ==
    /\ ret.op = "handleStartJob" /\ ret.val = "401"
    /\ DOMAIN jobs = {Itoa(1)}
    /\ nextID = 2

\* the callers that were inside Start when the Clear recorded in r ran
C24_UnderWayAtClear(r) ==
    CHOOSE T \in SUBSET Clients : CallersString(T) = r.seen

====
